---- MODULE Spec2Model ----
(***************************************************************************)
(* Model of feedback_api.py: the POST /feedback handler, its request       *)
(* schema (FeedbackPayload), the per-IP sliding-window rate limiter        *)
(* (_rate_limit over _ip_hits), the sanitizer (_clean) and the e-mail      *)
(* shape check (_valid_email).                                             *)
(*                                                                         *)
(* Strings that the code inspects character by character are sequences of  *)
(* one-character strings.  Requests run as coroutines of one event loop:   *)
(* a coroutine keeps the loop until it awaits (the outbound POST) or       *)
(* finishes, so the steps of the synchronous part of the handler are       *)
(* separate actions that only the running coroutine may take.              *)
(***************************************************************************)
EXTENDS Integers, Sequences, FiniteSets, TLC

\* ------------------------------------------------------------------ bounds
MaxReqs == 2        \* request slots (requests in flight at the same time)
MaxLimit == 2       \* largest configured RATE_LIMIT_PER_IP_PER_MIN
MaxTicks == 2       \* clock advances per behaviour
MaxEmailLen == 5    \* longest e-mail string of the e-mail specification
MaxCleanLen == 4    \* longest string handed to _clean in its own specification
MaxCleanBound == 3  \* largest max_len handed to _clean in its own specification

\* ------------------------------------------------------- program constants
WindowSeconds == 60     \* _rate_limit: (t - x) <= 60.0
MinMessageLen == 4      \* FeedbackPayload.message min_length, len(msg) < 4
MaxMessageLen == 4000   \* FeedbackPayload.message max_length, _clean(.., 4000)
MaxEmailFieldLen == 120 \* FeedbackPayload.email max_length, _clean(.., 120)
MaxHoneyLen == 40       \* FeedbackPayload.honey max_length
ErrorStatusFrom == 400  \* r.status_code >= 400

Null == <<"None">>      \* Python's None (absent header, absent client, null field)

\* --------------------------------------------------------------- strings
Whitespace == {" ", "\t", "\n", "\r"}   \* what str.strip() and \s treat as blank
Blank == {" ", "\t"}                    \* the class [ \t] of _clean
Ellipsis == "..."                       \* the single character U+2026

\* x or "": None and "" both read as the empty string
OrEmpty(x) == IF x = Null THEN <<>> ELSE x

RECURSIVE LStrip(_)
LStrip(s) == IF s # <<>> /\ Head(s) \in Whitespace THEN LStrip(Tail(s)) ELSE s

RECURSIVE RStrip(_)
RStrip(s) ==
    IF s # <<>> /\ s[Len(s)] \in Whitespace THEN RStrip(SubSeq(s, 1, Len(s) - 1)) ELSE s

\* str.strip()
Strip(s) == RStrip(LStrip(s))

\* re.sub(r"\r\n", "\n", s)
RECURSIVE SubCRLF(_)
SubCRLF(s) ==
    IF s = <<>> THEN <<>>
    ELSE IF Len(s) >= 2 /\ s[1] = "\r" /\ s[2] = "\n"
         THEN <<"\n">> \o SubCRLF(SubSeq(s, 3, Len(s)))
         ELSE <<Head(s)>> \o SubCRLF(Tail(s))

\* the rest of s after its leading run of [ \t]
RECURSIVE DropBlank(_)
DropBlank(s) == IF s # <<>> /\ Head(s) \in Blank THEN DropBlank(Tail(s)) ELSE s

\* re.sub(r"[ \t]{2,}", " ", s)
RECURSIVE SubBlankRuns(_)
SubBlankRuns(s) ==
    IF s = <<>> THEN <<>>
    ELSE IF Len(s) >= 2 /\ s[1] \in Blank /\ s[2] \in Blank
         THEN <<" ">> \o SubBlankRuns(DropBlank(s))
         ELSE <<Head(s)>> \o SubBlankRuns(Tail(s))

\* _clean(s, max_len)
_clean(s, max_len) ==
    LET a == Strip(OrEmpty(s))
        b == SubCRLF(a)
        c == SubBlankRuns(b)
    IN  IF Len(c) > max_len
        THEN RStrip(SubSeq(c, 1, max_len)) \o <<Ellipsis>>
        ELSE c

\* a character of the class [^@\s]
EmailChar(c) == c # "@" /\ c \notin Whitespace

\* re.match(r"^[^@\s]+@[^@\s]+\.[^@\s]+$", s): $ also matches before a final "\n"
RegexEmailMatch(s) ==
    \E n \in {Len(s)} \cup (IF s # <<>> /\ s[Len(s)] = "\n" THEN {Len(s) - 1} ELSE {}) :
        \E i \in 1..n : \E j \in 1..n :
            /\ 1 < i /\ i + 1 < j /\ j < n
            /\ s[i] = "@"
            /\ s[j] = "."
            /\ \A k \in 1..n : k # i => EmailChar(s[k])

\* a pattern that is neither anchored nor excludes @ and blanks: .+@.+\..+
_valid_email_loose(email) ==
    LET e == Strip(OrEmpty(email))
    IN  \E i \in 1..Len(e) : \E j \in 1..Len(e) :
            1 < i /\ i + 1 < j /\ j < Len(e) /\ e[i] = "@" /\ e[j] = "."

\* _valid_email(email)
_valid_email(email) ==
    LET e == Strip(OrEmpty(email))
    IN  e # <<>> /\ RegexEmailMatch(e)

\* ------------------------------------------------------------------ inputs
Reqs == 1..MaxReqs
NoClient == "None"                         \* request.client is None
Clients == {"10.0.0.1", NoClient}
IPs == {"10.0.0.1", "unknown"}
Secret == <<"k">>
Headers == {Null, <<"k", " ">>, <<"x">>}
Messages == { <<"H", "i">>, <<" ", "H", "i", " ">>, <<"H", "e", "l", "o">> }
Emails == { Null, <<"n", "o">>, <<"a", "@", "b", ".", "c">> }
LongHoney == [i \in 1..(MaxHoneyLen + 1) |-> "x"]
Honeys == { Null, <<" ">>, <<"x">>, LongHoney }
Payloads == [message : Messages, email : Emails, honey : Honeys]
Requests == [api_key : Headers, client : Clients, payload : Payloads]
NoRequest == [api_key |-> Null, client |-> NoClient,
              payload |-> [message |-> Null, email |-> Null, honey |-> Null]]
\* what client.post can come back with: a response or an exception
Outcomes == [exc : {"none"}, status : {200, 302, 400, 500}]
            \cup [exc : {"ConnectError", "ReadTimeout"}, status : {0}]

Ok == [status |-> 200, detail |-> "ok", upstream |-> 0]
Error(code, text) == [status |-> code, detail |-> text, upstream |-> 0]
NoResponse == [status |-> 0, detail |-> "", upstream |-> 0]
NoOutcome == [exc |-> "", status |-> 0]
NoReject == [ip |-> "", at |-> -1]

\* ------------------------------------------------------------------- state
VARIABLES
    SHARED_SECRET,              \* os.getenv("SHARED_SECRET", "").strip()
    RESEND_API_KEY,             \* os.getenv("RESEND_API_KEY", "").strip()
    RATE_LIMIT_PER_IP_PER_MIN,  \* int(os.getenv("RATE_LIMIT_PER_IP_PER_MIN", "20"))
    _ip_hits,                   \* { ip: [timestamps...] }
    now,                        \* what _now_utc().timestamp() reads
    pc,                         \* each request's position in feedback()
    request,                    \* each request's header, client and parsed body
    t,                          \* _rate_limit's local t
    bucket,                     \* _rate_limit's local bucket
    response,                   \* what the request was answered with
    posts,                      \* calls of client.post made for the request
    reply_to,                   \* payload_resend["reply_to"] of the call made
    post_result,                \* what the awaited client.post came back with
    recent,                     \* history: per IP, the timestamps recorded in [now - 60, now]
    lastReject,                 \* history: the last call _rate_limit rejected
    seen,                       \* history: how many timestamps the request's count check saw
    clean_s,                    \* _clean's argument s
    clean_max_len,              \* _clean's argument max_len
    clean_out                   \* what _clean returned (Null before the call)

vars == <<SHARED_SECRET, RESEND_API_KEY, RATE_LIMIT_PER_IP_PER_MIN, _ip_hits, now,
          pc, request, t, bucket, response, posts, reply_to, post_result,
          recent, lastReject, seen, clean_s, clean_max_len, clean_out>>
config == <<SHARED_SECRET, RESEND_API_KEY, RATE_LIMIT_PER_IP_PER_MIN>>
history == <<recent, lastReject, seen>>
sent == <<posts, reply_to, post_result>>
sanitizer == <<clean_s, clean_max_len, clean_out>>

\* no request has arrived, nothing is stored
Idle ==
    /\ _ip_hits = [ip \in IPs |-> <<>>]
    /\ now = 0
    /\ pc = [r \in Reqs |-> "idle"]
    /\ request = [r \in Reqs |-> NoRequest]
    /\ t = [r \in Reqs |-> 0]
    /\ bucket = [r \in Reqs |-> <<>>]
    /\ response = [r \in Reqs |-> NoResponse]
    /\ posts = [r \in Reqs |-> 0]
    /\ reply_to = [r \in Reqs |-> Null]
    /\ post_result = [r \in Reqs |-> NoOutcome]
    /\ recent = [ip \in IPs |-> <<>>]
    /\ lastReject = NoReject
    /\ seen = [r \in Reqs |-> -1]

Init ==
    /\ SHARED_SECRET \in {<<>>, Secret}
    /\ RESEND_API_KEY \in {"", "re_key"}
    /\ RATE_LIMIT_PER_IP_PER_MIN \in -1..MaxLimit
    /\ Idle
    /\ clean_s = <<>>
    /\ clean_max_len = 0
    /\ clean_out = Null

\* ------------------------------------------------------------- scheduling
\* feedback is an async def: its coroutines share one event loop, and a coroutine
\* is resumed only while every other one is suspended (not arrived, or awaiting
\* client.post).
CanRunInThreadPool(r) == r \in Reqs   \* a plain def handler: no exclusion
CanRun(r) == \A q \in Reqs \ {r} : pc[q] \in {"idle", "await_post"}

\* ------------------------------------------------------------ the schema
\* Field(min_length=.., max_length=..) of a str field
LenWithin(s, lo, hi) == Len(s) >= lo /\ Len(s) <= hi

\* FeedbackPayload: message is required, the Optional fields may be None
SchemaValid(p) ==
    /\ p.message # Null /\ LenWithin(p.message, MinMessageLen, MaxMessageLen)
    /\ p.email = Null \/ LenWithin(p.email, 0, MaxEmailFieldLen)
    /\ p.honey = Null \/ LenWithin(p.honey, 0, MaxHoneyLen)

\* a handler that files every request under one key
ClientIpShared(q) == "unknown"

\* (request.client.host if request.client else "unknown") or "unknown"
ClientIp(q) == IF q.client = NoClient \/ q.client = "" THEN "unknown" ELSE q.client

Finish(r, resp) ==
    /\ response' = [response EXCEPT ![r] = resp]
    /\ pc' = [pc EXCEPT ![r] = "done"]

\* The framework parses the body into FeedbackPayload before feedback() is
\* entered; a body that violates the schema is answered 422 by the framework.
Receive(r, q) ==
    /\ pc[r] = "idle"
    /\ CanRun(r)
    /\ request' = [request EXCEPT ![r] = q]
    /\ IF SchemaValid(q.payload)
       THEN /\ pc' = [pc EXCEPT ![r] = "secret"]
            /\ UNCHANGED response
       ELSE Finish(r, Error(422, "Unprocessable Entity"))
    /\ UNCHANGED <<config, sanitizer, _ip_hits, now, t, bucket, sent, history>>

\* --------------------------------------------------------- feedback(), 1-2
\* api_key = (request.headers.get("X-Api-Key") or "").strip(); api_key != SHARED_SECRET
SecretRejects(api_key) ==
    SHARED_SECRET # <<>> /\ Strip(OrEmpty(api_key)) # SHARED_SECRET

\* 1) the secret check
SecretCheck(r) ==
    /\ pc[r] = "secret"
    /\ CanRun(r)
    /\ IF SecretRejects(request[r].api_key)
       THEN Finish(r, Error(401, "Unauthorized"))
       ELSE /\ pc' = [pc EXCEPT ![r] = "honey"]
            /\ UNCHANGED response
    /\ UNCHANGED <<config, sanitizer, _ip_hits, now, request, t, bucket, sent, history>>

\* (payload.honey or "").strip()
HoneypotHit(p) == Strip(OrEmpty(p.honey)) # <<>>

\* a handler that counts the request against its IP before it looks at honey
HoneypotCheckAfterCount(r) ==
    /\ pc[r] = "honey"
    /\ CanRun(r)
    /\ IF HoneypotHit(request[r].payload)
       THEN /\ Finish(r, Ok)
            /\ _ip_hits' = [_ip_hits EXCEPT ![ClientIp(request[r])] = Append(@, now)]
       ELSE /\ pc' = [pc EXCEPT ![r] = "rate_limit"]
            /\ UNCHANGED <<response, _ip_hits>>
    /\ UNCHANGED <<config, sanitizer, now, request, t, bucket, sent, history>>

\* 2) the honeypot: answered as if delivered
HoneypotCheck(r) ==
    /\ pc[r] = "honey"
    /\ CanRun(r)
    /\ IF HoneypotHit(request[r].payload)
       THEN Finish(r, Ok)
       ELSE /\ pc' = [pc EXCEPT ![r] = "rate_limit"]
            /\ UNCHANGED response
    /\ UNCHANGED <<config, sanitizer, _ip_hits, now, request, t, bucket, sent, history>>

\* ------------------------------------------------------------ _rate_limit
\* (t - x) <= 60.0
InWindowExclusive(x, at) == (at - x) < WindowSeconds
InWindow(x, at) == (at - x) <= WindowSeconds

\* a limiter that never drops an old timestamp
PruneNothing(b, at) == b

\* [x for x in bucket if (t - x) <= 60.0]
Prune(b, at) == SelectSeq(b, LAMBDA x : InWindow(x, at))

\* a limiter that is switched off by a negative limit only
LimiterOffStrict == RATE_LIMIT_PER_IP_PER_MIN < 0

\* RATE_LIMIT_PER_IP_PER_MIN <= 0: return
LimiterOff == RATE_LIMIT_PER_IP_PER_MIN <= 0

\* len(bucket) >= RATE_LIMIT_PER_IP_PER_MIN
OverLimitOffByOne(b) == Len(b) > RATE_LIMIT_PER_IP_PER_MIN
OverLimit(b) == Len(b) >= RATE_LIMIT_PER_IP_PER_MIN

\* a limiter that appends and stores the timestamp before it compares
RateLimitCheckStoreFirst(r) ==
    LET ip == ClientIp(request[r])
        b  == Prune(_ip_hits[ip], now)
    IN  /\ pc[r] = "rate_limit"
        /\ CanRun(r)
        /\ IF LimiterOff
           THEN /\ pc' = [pc EXCEPT ![r] = "validate"]
                /\ UNCHANGED <<response, t, bucket, history, _ip_hits>>
           ELSE IF OverLimit(b)
           THEN /\ Finish(r, Error(429, "Too many requests"))
                /\ t' = [t EXCEPT ![r] = now]
                /\ lastReject' = [ip |-> ip, at |-> now]
                /\ _ip_hits' = [_ip_hits EXCEPT ![ip] = Append(b, now)]
                /\ UNCHANGED <<bucket, recent, seen>>
           ELSE /\ pc' = [pc EXCEPT ![r] = "record"]
                /\ t' = [t EXCEPT ![r] = now]
                /\ bucket' = [bucket EXCEPT ![r] = b]
                /\ seen' = [seen EXCEPT ![r] = Len(b)]
                /\ UNCHANGED <<response, recent, lastReject, _ip_hits>>
        /\ UNCHANGED <<config, sanitizer, now, request, sent>>

\* 3) _rate_limit(ip) up to the comparison: read the clock, prune, compare
RateLimitCheck(r) ==
    LET ip == ClientIp(request[r])
        b  == Prune(_ip_hits[ip], now)
    IN  /\ pc[r] = "rate_limit"
        /\ CanRun(r)
        /\ IF LimiterOff
           THEN /\ pc' = [pc EXCEPT ![r] = "validate"]
                /\ UNCHANGED <<response, t, bucket, history>>
           ELSE IF OverLimit(b)
           THEN /\ Finish(r, Error(429, "Too many requests"))
                /\ t' = [t EXCEPT ![r] = now]
                /\ lastReject' = [ip |-> ip, at |-> now]
                /\ UNCHANGED <<bucket, recent, seen>>
           ELSE /\ pc' = [pc EXCEPT ![r] = "record"]
                /\ t' = [t EXCEPT ![r] = now]
                /\ bucket' = [bucket EXCEPT ![r] = b]
                /\ seen' = [seen EXCEPT ![r] = Len(b)]
                /\ UNCHANGED <<response, recent, lastReject>>
        /\ UNCHANGED <<config, sanitizer, _ip_hits, now, request, sent>>

\* bucket.append(t); _ip_hits[ip] = bucket
RateLimitRecord(r) ==
    LET ip == ClientIp(request[r])
    IN  /\ pc[r] = "record"
        /\ CanRun(r)
        /\ _ip_hits' = [_ip_hits EXCEPT ![ip] = Append(bucket[r], t[r])]
        /\ recent' = [recent EXCEPT ![ip] = Append(@, t[r])]
        /\ bucket' = [bucket EXCEPT ![r] = <<>>]
        /\ pc' = [pc EXCEPT ![r] = "validate"]
        /\ UNCHANGED <<config, sanitizer, now, request, t, response, sent, lastReject, seen>>

\* --------------------------------------------------------- feedback(), 4-6
\* msg = _clean(payload.message, 4000); len(msg) < 4
MessageTooShort(p) == Len(_clean(p.message, MaxMessageLen)) < MinMessageLen

\* user_email = _clean(payload.email or "", 120)
UserEmail(p) == _clean(OrEmpty(p.email), MaxEmailFieldLen)

\* user_email and not _valid_email(user_email)
EmailRejected(p) == UserEmail(p) # <<>> /\ ~_valid_email(UserEmail(p))

\* a handler that takes the request's timestamp back when it answers 400
ValidateWithRollback(r) ==
    LET p  == request[r].payload
        ip == ClientIp(request[r])
        b  == _ip_hits[ip]
    IN  /\ pc[r] = "validate"
        /\ CanRun(r)
        /\ IF MessageTooShort(p) \/ EmailRejected(p)
           THEN /\ Finish(r, Error(400, IF MessageTooShort(p) THEN "Message too short"
                                                              ELSE "Invalid email"))
                /\ _ip_hits' = [_ip_hits EXCEPT ![ip] = SubSeq(b, 1, Len(b) - 1)]
           ELSE /\ pc' = [pc EXCEPT ![r] = "compose"]
                /\ UNCHANGED <<response, _ip_hits>>
        /\ UNCHANGED <<config, sanitizer, now, request, t, bucket, sent, history>>

\* 4) validation of the sanitized message and e-mail
Validate(r) ==
    LET p == request[r].payload
    IN  /\ pc[r] = "validate"
        /\ CanRun(r)
        /\ IF MessageTooShort(p)
           THEN Finish(r, Error(400, "Message too short"))
           ELSE IF EmailRejected(p)
           THEN Finish(r, Error(400, "Invalid email"))
           ELSE /\ pc' = [pc EXCEPT ![r] = "compose"]
                /\ UNCHANGED response
        /\ UNCHANGED <<config, sanitizer, _ip_hits, now, request, t, bucket, sent, history>>

\* **({"reply_to": user_email} if user_email else {})
ReplyTo(p) == IF UserEmail(p) # <<>> THEN UserEmail(p) ELSE Null

\* a handler that looks at the provider key only after it has called client.post
SendBeforeKeyCheck(r) ==
    /\ pc[r] = "compose"
    /\ CanRun(r)
    /\ posts' = [posts EXCEPT ![r] = @ + 1]
    /\ reply_to' = [reply_to EXCEPT ![r] = ReplyTo(request[r].payload)]
    /\ IF RESEND_API_KEY = ""
       THEN Finish(r, Error(500, "RESEND_API_KEY is not set"))
       ELSE /\ pc' = [pc EXCEPT ![r] = "await_post"]
            /\ UNCHANGED response
    /\ UNCHANGED <<config, sanitizer, _ip_hits, now, request, t, bucket, post_result, history>>

\* 5-6) compose the mail, check the provider key, call client.post and await it
Send(r) ==
    LET p == request[r].payload
    IN  /\ pc[r] = "compose"
        /\ CanRun(r)
        /\ IF RESEND_API_KEY = ""
           THEN /\ Finish(r, Error(500, "RESEND_API_KEY is not set"))
                /\ UNCHANGED <<posts, reply_to>>
           ELSE /\ posts' = [posts EXCEPT ![r] = @ + 1]
                /\ reply_to' = [reply_to EXCEPT ![r] = ReplyTo(p)]
                /\ pc' = [pc EXCEPT ![r] = "await_post"]
                /\ UNCHANGED response
        /\ UNCHANGED <<config, sanitizer, _ip_hits, now, request, t, bucket, post_result, history>>

\* r.status_code >= 400
IsErrorStatus(status) == status >= ErrorStatusFrom

\* what the handler answers once client.post has come back with o
Answer(o) ==
    IF o.exc # "none" THEN Error(502, "Send failed")
    ELSE IF IsErrorStatus(o.status)
         THEN [status |-> 502, detail |-> "Resend error", upstream |-> o.status]
         ELSE Ok

\* a handler that posts again when the first attempt failed
DeliverWithRetry(r, o) ==
    /\ pc[r] = "await_post"
    /\ CanRun(r)
    /\ post_result' = [post_result EXCEPT ![r] = o]
    /\ IF Answer(o).status = 502 /\ posts[r] < 2
       THEN /\ posts' = [posts EXCEPT ![r] = @ + 1]
            /\ UNCHANGED <<pc, response>>
       ELSE /\ Finish(r, Answer(o))
            /\ UNCHANGED posts
    /\ UNCHANGED <<config, sanitizer, _ip_hits, now, request, t, bucket, reply_to, history>>

\* the awaited client.post returns or raises; the handler answers
Deliver(r, o) ==
    /\ pc[r] = "await_post"
    /\ CanRun(r)
    /\ post_result' = [post_result EXCEPT ![r] = o]
    /\ Finish(r, Answer(o))
    /\ UNCHANGED <<config, sanitizer, _ip_hits, now, request, t, bucket, posts, reply_to, history>>

\* the response is written and the request's objects are dropped
Reply(r) ==
    /\ pc[r] = "done"
    /\ pc' = [pc EXCEPT ![r] = "idle"]
    /\ request' = [request EXCEPT ![r] = NoRequest]
    /\ response' = [response EXCEPT ![r] = NoResponse]
    /\ posts' = [posts EXCEPT ![r] = 0]
    /\ reply_to' = [reply_to EXCEPT ![r] = Null]
    /\ post_result' = [post_result EXCEPT ![r] = NoOutcome]
    /\ t' = [t EXCEPT ![r] = 0]
    /\ seen' = [seen EXCEPT ![r] = -1]
    /\ UNCHANGED <<config, sanitizer, _ip_hits, now, bucket, recent, lastReject>>

\* ------------------------------------------------------------------ clock
TickSteps == {1, WindowSeconds}
TicksUsed == (now \div WindowSeconds) + (now % WindowSeconds)

\* time passes: the clock's readings never decrease
Tick(d) ==
    /\ TicksUsed < MaxTicks
    /\ now' = now + d
    /\ recent' = [ip \in IPs |-> SelectSeq(recent[ip], LAMBDA x : x >= now' - WindowSeconds)]
    /\ UNCHANGED <<config, sanitizer, _ip_hits, pc, request, t, bucket, response, sent,
                   lastReject, seen>>

\* --------------------------------------------------------- specifications
\* Requests of every shape, one at a time, under every configuration.
Next ==
    \/ \E q \in Requests : Receive(1, q)
    \/ SecretCheck(1)
    \/ HoneypotCheck(1)
    \/ RateLimitCheck(1)
    \/ RateLimitRecord(1)
    \/ Validate(1)
    \/ Send(1)
    \/ \E o \in Outcomes : Deliver(1, o)
    \/ Reply(1)

Spec == Init /\ [][Next]_vars

\* Deliverable requests from every client while time passes: the rate limiter.
GoodPayload == [message |-> <<"H", "e", "l", "o">>, email |-> Null, honey |-> Null]
LimiterRequests == [api_key : {Null}, client : Clients, payload : {GoodPayload}]

InitLimiter ==
    /\ Init
    /\ SHARED_SECRET = <<>>
    /\ RESEND_API_KEY = "re_key"

NextLimiter ==
    \/ \E d \in TickSteps : Tick(d)
    \/ \E q \in LimiterRequests : Receive(1, q)
    \/ SecretCheck(1)
    \/ HoneypotCheck(1)
    \/ RateLimitCheck(1)
    \/ RateLimitRecord(1)
    \/ Validate(1)
    \/ Send(1)
    \/ \E o \in Outcomes : Deliver(1, o)
    \/ Reply(1)

SpecLimiter == InitLimiter /\ [][NextLimiter]_vars

\* Requests of one client in flight at the same time, each resumed when the
\* event loop is free.
ConcurrentRequests == [api_key : {Null}, client : {"10.0.0.1"}, payload : {GoodPayload}]

InitConcurrent ==
    /\ InitLimiter
    /\ RATE_LIMIT_PER_IP_PER_MIN > 0

NextConcurrent ==
    \/ \E d \in TickSteps : Tick(d)
    \/ \E r \in Reqs : \E q \in ConcurrentRequests : Receive(r, q)
    \/ \E r \in Reqs : SecretCheck(r)
    \/ \E r \in Reqs : HoneypotCheck(r)
    \/ \E r \in Reqs : RateLimitCheck(r)
    \/ \E r \in Reqs : RateLimitRecord(r)
    \/ \E r \in Reqs : Validate(r)
    \/ \E r \in Reqs : Send(r)
    \/ \E r \in Reqs : \E o \in Outcomes : Deliver(r, o)
    \/ \E r \in Reqs : Reply(r)

SpecConcurrent == InitConcurrent /\ [][NextConcurrent]_vars

\* Requests that differ in their e-mail field only, over every short string of
\* the characters the pattern of _valid_email tells apart.
EmailAlphabet == {"a", "@", ".", " "}
EmailStrings == UNION {[1..n -> EmailAlphabet] : n \in 0..MaxEmailLen}
EmailRequests ==
    [api_key : {Null}, client : {"10.0.0.1"},
     payload : [message : {GoodPayload.message}, email : EmailStrings, honey : {Null}]]

NextEmail ==
    \/ \E q \in EmailRequests : Receive(1, q)
    \/ SecretCheck(1)
    \/ HoneypotCheck(1)
    \/ RateLimitCheck(1)
    \/ RateLimitRecord(1)
    \/ Validate(1)
    \/ Send(1)
    \/ \E o \in Outcomes : Deliver(1, o)
    \/ Reply(1)

InitEmail ==
    /\ InitLimiter
    /\ RATE_LIMIT_PER_IP_PER_MIN = 1

SpecEmail == InitEmail /\ [][NextEmail]_vars

\* ---------------------------------------------------- _clean on its own
\* _clean as a function of its two arguments: every string of up to MaxCleanLen
\* characters over a letter, a blank, CR and LF, and every max_len up to
\* MaxCleanBound.
CleanAlphabet == {"a", " ", "\r", "\n"}
CleanStrings == UNION {[1..n -> CleanAlphabet] : n \in 0..MaxCleanLen}
CleanBounds == 1..MaxCleanBound

\* the call _clean(clean_s, clean_max_len) returns
Clean ==
    /\ clean_out = Null
    /\ clean_out' = _clean(clean_s, clean_max_len)
    /\ UNCHANGED <<config, _ip_hits, now, pc, request, t, bucket, response, sent, history,
                   clean_s, clean_max_len>>

NextClean == Clean

InitClean ==
    /\ SHARED_SECRET = <<>>
    /\ RESEND_API_KEY = "re_key"
    /\ RATE_LIMIT_PER_IP_PER_MIN = 0
    /\ Idle
    /\ clean_s \in CleanStrings
    /\ clean_max_len \in CleanBounds
    /\ clean_out = Null

SpecClean == InitClean /\ [][NextClean]_vars

\* ============================================================= properties
Done(r) == pc[r] = "done"
Status(r) == response[r].status
Body(r) == request[r].payload
Ip(r) == ClientIp(request[r])
\* the request went through _rate_limit without an exception
PassedLimiter(r) == LimiterOff \/ seen[r] >= 0
\* the request passed every admission check that precedes the send
Admitted(r) ==
    /\ SchemaValid(Body(r))
    /\ ~SecretRejects(request[r].api_key)
    /\ ~HoneypotHit(Body(r))
    /\ PassedLimiter(r)
    /\ ~MessageTooShort(Body(r))
    /\ ~EmailRejected(Body(r))

\* C1: a request makes at most one outbound call, and only once it has passed
\* the secret, honeypot, rate-limit, message and e-mail checks; a request
\* answered 401, 429, 400 or 500 made none, and a request answered with success
\* that was no honeypot hit made exactly one.
C1_OneSendAfterAdmission ==
    \A r \in Reqs :
        /\ posts[r] <= 1
        /\ posts[r] >= 1 => Admitted(r)
        /\ Done(r) /\ Status(r) \in {401, 429, 400, 500} => posts[r] = 0
        /\ Done(r) /\ Status(r) = 200 /\ ~HoneypotHit(Body(r)) => posts[r] = 1

C1_Witness ==
    \E r \in Reqs :
        Done(r) /\ response[r] = Ok /\ ~HoneypotHit(Body(r)) /\ posts[r] = 1

\* the calls of ip accepted with a timestamp in [lo, hi], of the last 60 s
AcceptedIn(ip, lo, hi) == {i \in 1..Len(recent[ip]) : lo <= recent[ip][i] /\ recent[ip][i] <= hi}
Instants(ip) == {now} \cup {recent[ip][i] : i \in 1..Len(recent[ip])}

\* C2: with a positive limit L, for every IP and every instant e, at most L
\* calls of that IP were accepted with a timestamp in [e - 60, e].
C2_AtMostLimitPerWindow ==
    RATE_LIMIT_PER_IP_PER_MIN > 0 =>
        \A ip \in IPs : \A e \in Instants(ip) :
            Cardinality(AcceptedIn(ip, e - WindowSeconds, e)) <= RATE_LIMIT_PER_IP_PER_MIN

\* a full window: L accepted calls in the last 60 s, and one more call rejected
C2_Witness ==
    \E ip \in IPs :
        /\ RATE_LIMIT_PER_IP_PER_MIN = 2
        /\ Cardinality(AcceptedIn(ip, now - WindowSeconds, now)) = 2
        /\ recent[ip][1] + WindowSeconds = now
        /\ lastReject = [ip |-> ip, at |-> now]

\* the request passed _rate_limit's comparison
Counted(r) == seen[r] >= 0 /\ pc[r] \in {"record", "validate", "compose", "await_post", "done"}

\* C3: two requests of one IP never both pass the count check before either
\* records its timestamp; of two requests in flight that both found L-1
\* timestamps in the same window, at most one is accepted.
C3_NoDoubleAdmission ==
    \A r1 \in Reqs : \A r2 \in Reqs \ {r1} :
        Ip(r1) = Ip(r2) =>
            /\ ~(pc[r1] = "record" /\ pc[r2] = "record")
            /\ ~( /\ Counted(r1) /\ Counted(r2)
                  /\ t[r1] = t[r2]
                  /\ seen[r1] = RATE_LIMIT_PER_IP_PER_MIN - 1
                  /\ seen[r2] = RATE_LIMIT_PER_IP_PER_MIN - 1 )

\* one request is accepted on L-1 timestamps and still awaits its POST when the
\* other, reading the same clock, is rejected
C3_Witness ==
    \E r1 \in Reqs : \E r2 \in Reqs \ {r1} :
        /\ Ip(r1) = Ip(r2)
        /\ pc[r1] = "await_post" /\ seen[r1] = RATE_LIMIT_PER_IP_PER_MIN - 1
        /\ Done(r2) /\ Status(r2) = 429 /\ t[r2] = t[r1]

\* C4: a submission that passes the secret check and whose honey field is
\* non-empty is answered 200 {ok: true} and makes no outbound call, whatever
\* its message, e-mail and field lengths are.
C4_HoneypotAlwaysSilent ==
    \A r \in Reqs :
        Done(r) /\ ~SecretRejects(request[r].api_key) /\ HoneypotHit(Body(r))
            => response[r] = Ok /\ posts[r] = 0

\* the IP's window is full for a request that the limiter did not count
WindowFullFor(r) ==
    ~LimiterOff /\ seen[r] < 0 /\ OverLimit(Prune(_ip_hits[Ip(r)], now))

\* C5: the response is the outcome of the earliest violated check in the order
\* secret, honeypot, rate limit, message, e-mail.
C5_EarliestViolationDecides ==
    \A r \in Reqs :
        Done(r) =>
            IF SecretRejects(request[r].api_key) THEN Status(r) = 401
            ELSE IF HoneypotHit(Body(r)) THEN response[r] = Ok /\ posts[r] = 0
            ELSE IF WindowFullFor(r) THEN Status(r) = 429
            ELSE IF MessageTooShort(Body(r))
                 THEN response[r] = Error(400, "Message too short")
            ELSE IF EmailRejected(Body(r))
                 THEN response[r] = Error(400, "Invalid email")
            ELSE Status(r) \in {200, 500, 502}

\* C6: a submission that gets as far as message validation (it passed the
\* secret, honeypot and rate-limit checks) and whose sanitized message is
\* shorter than 4 characters is answered 400 "message too short", nothing sent.
C6_ShortMessageIsBadRequest ==
    \A r \in Reqs :
        ( /\ Done(r)
          /\ ~SecretRejects(request[r].api_key)
          /\ ~HoneypotHit(Body(r))
          /\ Status(r) # 429
          /\ MessageTooShort(Body(r)) )
            => response[r] = Error(400, "Message too short") /\ posts[r] = 0

Is2xx(o) == o.exc = "none" /\ o.status >= 200 /\ o.status <= 299

\* C7: every outcome of the delivery attempt other than a 2xx response (a
\* transport error, a timeout, a non-2xx status) is answered 502, and the
\* handler makes no second attempt.
C7_NonSuccessIsBadGateway ==
    \A r \in Reqs :
        /\ posts[r] <= 1
        /\ Done(r) /\ post_result[r] # NoOutcome /\ ~Is2xx(post_result[r])
            => Status(r) = 502

\* C8: a request is answered 401 exactly if a secret is configured and the
\* X-Api-Key header does not match it; a request answered 401 was not counted
\* by the rate limiter and made no outbound call.
C8_UnauthorizedIffMismatch ==
    \A r \in Reqs :
        Done(r) =>
            /\ Status(r) = 401 <=>
                   (SHARED_SECRET # <<>> /\ Strip(OrEmpty(request[r].api_key)) # SHARED_SECRET)
            /\ Status(r) = 401 => seen[r] < 0 /\ posts[r] = 0

\* the request in slot r goes through _rate_limit's comparison in this step
Decided(r) == pc[r] = "rate_limit" /\ pc'[r] # "rate_limit"

\* C9: with a positive limit L, a call of an IP is accepted while fewer than L
\* of its calls were accepted in the 60 seconds up to now and rejected once L
\* were; a call made more than 60 seconds after the IP's earliest counted
\* timestamp is accepted again.
C9_RefillAfterWindow ==
    [][ \A r \in Reqs :
            (Decided(r) /\ RATE_LIMIT_PER_IP_PER_MIN > 0) =>
                LET ip == Ip(r)
                    n  == Cardinality(AcceptedIn(ip, now - WindowSeconds, now))
                IN  /\ n < RATE_LIMIT_PER_IP_PER_MIN => pc'[r] = "record"
                    /\ n >= RATE_LIMIT_PER_IP_PER_MIN => response'[r].status = 429
                    /\ (_ip_hits[ip] # <<>> /\ now - _ip_hits[ip][1] > WindowSeconds)
                           => pc'[r] = "record"
      ]_vars

\* limit 2: calls at 0 and 1 accepted, a third at 1 rejected, a fourth at 61
\* accepted (the timestamp 0 has left the window)
C9_Witness ==
    \E r \in Reqs :
        /\ RATE_LIMIT_PER_IP_PER_MIN = 2
        /\ now = 61
        /\ lastReject = [ip |-> Ip(r), at |-> 1]
        /\ pc[r] = "validate" /\ t[r] = 61
        /\ _ip_hits[Ip(r)] = <<1, 61>>

Positions(e, c) == {i \in 1..Len(e) : e[i] = c}
NoWhitespace(e, lo, hi) == \A i \in lo..hi : e[i] \notin Whitespace
EmailShape(e) ==
    /\ Cardinality(Positions(e, "@")) = 1
    /\ LET at == CHOOSE i \in Positions(e, "@") : TRUE
       IN  /\ at > 1
           /\ NoWhitespace(e, 1, at - 1)
           /\ \E j \in Positions(e, ".") : j > at
           /\ NoWhitespace(e, at + 1, Len(e))
\* the request got past the e-mail check
PassedEmailCheck(r) ==
    \/ pc[r] \in {"compose", "await_post"}
    \/ Done(r) /\ Status(r) \in {200, 500, 502} /\ ~HoneypotHit(Body(r))
\* the request got as far as the e-mail check
ReachedEmailCheck(r) ==
    /\ pc[r] \in {"compose", "await_post", "done"}
    /\ SchemaValid(Body(r))
    /\ ~SecretRejects(request[r].api_key)
    /\ ~HoneypotHit(Body(r))
    /\ PassedLimiter(r)
    /\ ~MessageTooShort(Body(r))

\* C10: an e-mail that is non-empty after sanitization passes e-mail validation
\* only if it has exactly one @, a non-empty local part without whitespace and
\* a domain part with a "." and without whitespace; any other is answered 400
\* "invalid email" and nothing is sent; reply_to is set only to such an e-mail.
C10_AcceptedEmailHasShape ==
    \A r \in Reqs :
        LET e == UserEmail(Body(r))
        IN  /\ (e # <<>> /\ PassedEmailCheck(r)) => EmailShape(e)
            /\ (e # <<>> /\ ReachedEmailCheck(r) /\ ~EmailShape(e))
                   => response[r] = Error(400, "Invalid email") /\ posts[r] = 0
            /\ reply_to[r] # Null => e # <<>> /\ reply_to[r] = e /\ EmailShape(reply_to[r])

\* a shaped e-mail was delivered with reply_to set to it
C10_Witness ==
    \E r \in Reqs :
        /\ Done(r) /\ response[r] = Ok /\ posts[r] = 1
        /\ Body(r).email = <<"a", "@", "a", ".", "a">>
        /\ reply_to[r] = <<"a", "@", "a", ".", "a">>

\* C11: without a provider API key, every request that reaches the send step
\* (it passed the secret, honeypot, rate-limit, message and e-mail checks) is
\* answered 500, and no outbound call is made.
C11_NoKeyIsInternalError ==
    RESEND_API_KEY = "" =>
        \A r \in Reqs :
            /\ posts[r] = 0
            /\ pc[r] # "await_post"
            /\ (Done(r) /\ Admitted(r))
                   => response[r] = Error(500, "RESEND_API_KEY is not set")

\* an admitted request, counted by the limiter, answered 500 with nothing sent
C11_Witness ==
    \E r \in Reqs :
        /\ RESEND_API_KEY = ""
        /\ Done(r) /\ Admitted(r) /\ seen[r] >= 0
        /\ Status(r) = 500 /\ posts[r] = 0

\* C12: every request ends with one response, which is success 200 or one of
\* the failures 401, 429, 400, 502, 500; no other outcome is reachable.
C12_OnlyDocumentedOutcomes ==
    \A r \in Reqs :
        Done(r) => /\ response[r] # NoResponse
                   /\ \/ response[r] = Ok
                      \/ Status(r) \in {401, 429, 400, 502, 500}

\* C13: for every string s and every bound n, the output of _clean(s, n)
\* contains no carriage return.
C13_NoInteriorCR ==
    clean_out # Null => \A i \in 1..Len(clean_out) : clean_out[i] # "\r"

\* C14: with a limit of 0 or less, limiting is off: every call of the rate
\* limiter is accepted, for every IP and after any earlier calls, and no
\* request is ever answered 429.
C14_NonPositiveLimitDisables ==
    RATE_LIMIT_PER_IP_PER_MIN <= 0 =>
        /\ lastReject = NoReject
        /\ \A r \in Reqs : Status(r) # 429

\* limit 0: a request was delivered after the clock moved, nothing was stored
C14_Witness ==
    \E r \in Reqs :
        /\ RATE_LIMIT_PER_IP_PER_MIN = 0
        /\ now > 0
        /\ Done(r) /\ response[r] = Ok /\ posts[r] = 1

\* the request in slot r is in the handler and its honeypot check detects spam
Detected(r) ==
    /\ pc[r] # "idle"
    /\ SchemaValid(Body(r))
    /\ ~SecretRejects(request[r].api_key)
    /\ HoneypotHit(Body(r))

\* C15: a request that the honeypot check detects as spam updates nothing in
\* the rate limiter: from its arrival to its response, every IP's stored
\* timestamp sequence, the sender's included, stays as it was.
C15_HoneypotLeavesLimiterAlone ==
    [][\A r \in Reqs :
          (pc'[r] # pc[r] /\ (Detected(r) \/ Detected(r)')) => _ip_hits' = _ip_hits]_vars

\* a detected request was answered while its IP had a stored timestamp and room
\* for another one
C15_Witness ==
    \E r \in Reqs :
        /\ Detected(r) /\ Done(r) /\ response[r] = Ok
        /\ RATE_LIMIT_PER_IP_PER_MIN = 2
        /\ _ip_hits[Ip(r)] = <<0>>

\* C16: a call of the rate limiter that rejects (429) records nothing: the
\* stored timestamps of every IP are the same after the call as before it.
C16_RejectionRecordsNothing ==
    [][\A r \in Reqs :
          (Decided(r) /\ response'[r].status = 429) => _ip_hits' = _ip_hits]_vars

\* a call rejected at 60 on the stored timestamps 0 and 60, which are still
\* what is stored
C16_Witness ==
    \E r \in Reqs :
        /\ RATE_LIMIT_PER_IP_PER_MIN = 2
        /\ Done(r) /\ Status(r) = 429 /\ t[r] = WindowSeconds
        /\ now = WindowSeconds
        /\ _ip_hits[Ip(r)] = <<0, WindowSeconds>>

\* C17: with a positive limit L (the clock never goes back), what is stored for
\* each IP is a non-decreasing sequence of at most L timestamps, each within
\* 60 seconds of the newest one of that sequence.
C17_StoredEntryWellFormed ==
    RATE_LIMIT_PER_IP_PER_MIN > 0 =>
        \A ip \in IPs :
            LET b == _ip_hits[ip]
            IN  /\ Len(b) <= RATE_LIMIT_PER_IP_PER_MIN
                /\ \A i \in 1..Len(b) : \A j \in i..Len(b) : b[i] <= b[j]
                /\ \A i \in 1..Len(b) : b[Len(b)] - b[i] <= WindowSeconds

\* a full entry whose oldest timestamp is exactly 60 seconds before the newest
C17_Witness ==
    \E ip \in IPs :
        /\ RATE_LIMIT_PER_IP_PER_MIN = 2
        /\ _ip_hits[ip] = <<1, 1 + WindowSeconds>>

\* the request in slot r went through the rate limiter's call without a 429: it
\* is at a later step of the handler, or was answered by one
PassedCheck(r) ==
    \/ pc[r] \in {"validate", "compose", "await_post"}
    \/ /\ Done(r)
       /\ \/ Status(r) \in {400, 500, 502}
          \/ response[r] = Ok /\ ~HoneypotHit(Body(r))

\* the IP's stored entry is what the request's check counted plus one
\* timestamp, the request's own
RecordedOne(r) ==
    LET b == _ip_hits[Ip(r)]
    IN  /\ Len(b) >= 1
        /\ Len(b) = seen[r] + 1
        /\ b[Len(b)] = t[r]

\* C18, as stated: every request that passes the rate-limit check has recorded
\* exactly one timestamp for its IP, whatever its later outcome (400, 500, 502
\* or success), and the timestamp is never taken back.
C18_EveryPassRecordsOne ==
    \A r \in Reqs : PassedCheck(r) => RecordedOne(r)

\* C18, amended: with a positive limit, every request that passes the
\* rate-limit check has recorded exactly one timestamp for its IP, whatever its
\* later outcome (400, 500, 502 or success), and the timestamp is never taken
\* back.
C18_PassRecordsOneWhenLimited ==
    RATE_LIMIT_PER_IP_PER_MIN > 0 =>
        \A r \in Reqs : PassedCheck(r) => RecordedOne(r)

\* a second request of an IP, answered 400 after it was counted: both
\* timestamps are stored
C18_Witness ==
    \E r \in Reqs :
        /\ RATE_LIMIT_PER_IP_PER_MIN = 2
        /\ Done(r) /\ Status(r) = 400
        /\ seen[r] = 1
        /\ Len(_ip_hits[Ip(r)]) = 2

\* the address the request in slot r came from
Sender(r) ==
    IF request[r].client \in {NoClient, ""} THEN "unknown" ELSE request[r].client

\* the stored timestamps of ip that are at most 60 seconds old
Fresh(ip) == {i \in 1..Len(_ip_hits[ip]) : now - _ip_hits[ip][i] <= WindowSeconds}

\* C19: rate limiting is per IP: the stored timestamps of an IP b change only
\* by a call of the rate limiter for b itself, and a call for an IP a is
\* rejected exactly when a's own stored timestamps of the last 60 seconds
\* number at least the (positive) limit, whatever is stored for other IPs.
C19_IsolatedPerIp ==
    [][/\ \A b \in IPs :
             _ip_hits'[b] # _ip_hits[b] =>
                 \E r \in Reqs : pc[r] = "record" /\ pc'[r] = "validate" /\ Sender(r) = b
       /\ \A r \in Reqs :
             Decided(r) =>
                 (response'[r].status = 429
                      <=> /\ RATE_LIMIT_PER_IP_PER_MIN > 0
                          /\ Cardinality(Fresh(Sender(r))) >= RATE_LIMIT_PER_IP_PER_MIN)
      ]_vars

\* one IP has used up its limit and was rejected; a request of another IP,
\* reading the same clock, was accepted
C19_Witness ==
    \E r \in Reqs :
        /\ RATE_LIMIT_PER_IP_PER_MIN > 0
        /\ lastReject = [ip |-> "10.0.0.1", at |-> now]
        /\ Cardinality(Fresh("10.0.0.1")) = RATE_LIMIT_PER_IP_PER_MIN
        /\ Sender(r) = "unknown" /\ pc[r] = "validate" /\ t[r] = now
        /\ _ip_hits["unknown"] = <<now>>

====
